---- MODULE Spec2Model ----
(***************************************************************************)
(* The panchayat election registry (createElection) and the Holi colour    *)
(* brightness function (adjustBrightness), as state machines.              *)
(*                                                                         *)
(* An election is the closure state of createElection: the candidates      *)
(* array it was given, the Map registeredVoterList and the plain object    *)
(* candidatedVoted.  Every method call is one atomic action (the code is   *)
(* synchronous); `call' records the call made and `ret' what it returned.  *)
(***************************************************************************)
EXTENDS Integers, Sequences, FiniteSets, TLC

VARIABLES
    candidates,            \* the array passed to createElection
    registeredVoterList,   \* Map: voter id -> voter record
    candidatedVoted,       \* own enumerable properties of the object: voter id -> ballot
    candidatedVotedProto,  \* [[Prototype]] of candidatedVoted, when it was replaced
    succeeded,             \* history: voter ids for which castVote called onSuccess
    call,                  \* the last call made
    ret                    \* what the last call returned

vars == <<candidates, registeredVoterList, candidatedVoted, candidatedVotedProto,
          succeeded, call, ret>>

----------------------------------------------------------------------------
(* Bounds and input domains *)

NumVoters == 2
NumCands == 2
MaxNumerator == 3

VotingAge == 18
MaxChannel == 255

VoterNames == <<"V1", "V2", "V3", "V4">>
CandNames == <<"C1", "C2", "C3", "C4">>
PersonNames == <<"Ram", "Sita", "Lakhan", "Gita">>
PartyNames == <<"Janata", "Lok", "Kisan", "Gram">>

\* The property name that an ordinary object does not store as its own.
ProtoKey == "__proto__"

VoterIds == {VoterNames[i] : i \in 1..NumVoters} \cup {ProtoKey}

EmptyId == ""

Ages == {0, VotingAge - 1, VotingAge}

\* JavaScript null / undefined, and the election object as first created.
JsNull == [jsNull |-> TRUE]

TypeError == [throws |-> "TypeError"]

EmptyMap == [k \in {} |-> JsNull]

\* The voter argument: null, a record without id, with an empty id, without
\* age, or complete.  (The name field is stored with the record and never read.)
VoterInputs ==
    {JsNull}
    \cup {[age |-> a] : a \in Ages}
    \cup {[id |-> i] : i \in VoterIds}
    \cup {[id |-> i, age |-> a] : i \in VoterIds \cup {EmptyId}, a \in Ages}

Candidate(i) == [id |-> CandNames[i], name |-> PersonNames[i], party |-> PartyNames[i]]

\* Candidate arrays an election is created with: none, in id order, reversed.
CandidateLists ==
    { <<>>,
      [i \in 1..NumCands |-> Candidate(i)],
      [i \in 1..NumCands |-> Candidate(NumCands + 1 - i)] }

UnknownCandidate == "C0"

CandidateIdInputs == {CandNames[i] : i \in 1..NumCands} \cup {UnknownCandidate}

NoSortFn == "undefined"

\* Comparators a caller passes to getResults: none, (a, b) => a.votes - b.votes,
\* and () => 0.
SortFns == {NoSortFn, "votesAscending", "keepOrder"}

----------------------------------------------------------------------------
(* registerVoter *)

\* !voter?.id : null has no id; undefined and "" are falsy.
HasNoId(voter) == "id" \notin DOMAIN voter \/ voter.id = EmptyId

\* voter.age < 18 : an absent age is undefined, and undefined < 18 is false.
IsUnderAge(voter) == "age" \in DOMAIN voter /\ voter.age < VotingAge

IsRejectedNoDuplicateCheck(voter) == HasNoId(voter) \/ IsUnderAge(voter)

IsRejected(voter) ==
    \/ HasNoId(voter)
    \/ voter.id \in DOMAIN registeredVoterList
    \/ IsUnderAge(voter)

MapSet(map, key, value) == [k \in DOMAIN map \cup {key} |-> IF k = key THEN value ELSE map[k]]

RegisterVoter(voter) ==
    /\ call' = [op |-> "registerVoter", voter |-> voter]
    /\ IF IsRejected(voter)
       THEN /\ ret' = FALSE
            /\ UNCHANGED registeredVoterList
       ELSE /\ registeredVoterList' = MapSet(registeredVoterList, voter.id, voter)
            /\ ret' = TRUE
    /\ UNCHANGED <<candidates, candidatedVoted, candidatedVotedProto, succeeded>>

----------------------------------------------------------------------------
(* castVote *)

AnyCandidateId(candidateId) == TRUE

CandidateExists(candidateId) ==
    \E i \in 1..Len(candidates) : candidates[i].id = candidateId

EveryoneRegistered(voterId) == TRUE

IsRegistered(voterId) == voterId \in DOMAIN registeredVoterList

HasVoted(voterId) ==
    voterId \in DOMAIN candidatedVoted /\ candidatedVoted[voterId].voted

Ballot(voterId, candidateId) ==
    [voted |-> TRUE, candidateId |-> candidateId, voterId |-> voterId]

\* candidatedVoted[voterId] = {...} : an assignment to "__proto__" runs the
\* setter inherited from Object.prototype and replaces the prototype; any other
\* key becomes an own property.
OwnAfterAssign(voterId, candidateId) ==
    IF voterId = ProtoKey
    THEN candidatedVoted
    ELSE MapSet(candidatedVoted, voterId, Ballot(voterId, candidateId))

ProtoAfterAssign(voterId, candidateId) ==
    IF voterId = ProtoKey
    THEN Ballot(voterId, candidateId)
    ELSE candidatedVotedProto

OnError(reason) == [callback |-> "onError", arg |-> reason]

OnSuccess(voterId, candidateId) ==
    [callback |-> "onSuccess", arg |-> [voterId |-> voterId, candidateId |-> candidateId]]

CastVote(voterId, candidateId) ==
    /\ call' = [op |-> "castVote", voterId |-> voterId, candidateId |-> candidateId]
    /\ IF ~CandidateExists(candidateId)
       THEN /\ ret' = OnError("Wrong candidate!")
            /\ UNCHANGED <<candidatedVoted, candidatedVotedProto, succeeded>>
       ELSE IF ~IsRegistered(voterId)
       THEN /\ ret' = OnError("Unauthorized voter!")
            /\ UNCHANGED <<candidatedVoted, candidatedVotedProto, succeeded>>
       ELSE IF HasVoted(voterId)
       THEN /\ ret' = OnError("Already voted!")
            /\ UNCHANGED <<candidatedVoted, candidatedVotedProto, succeeded>>
       ELSE /\ candidatedVoted' = OwnAfterAssign(voterId, candidateId)
            /\ candidatedVotedProto' = ProtoAfterAssign(voterId, candidateId)
            /\ succeeded' = succeeded \cup {voterId}
            /\ ret' = OnSuccess(voterId, candidateId)
    /\ UNCHANGED <<candidates, registeredVoterList>>

----------------------------------------------------------------------------
(* getResults and getWinner *)

\* Object.values(candidatedVoted).filter(v => v.candidateId === candidate.id).length
\* Object.values lists the own enumerable properties only.
VotesFor(candidate) ==
    Cardinality({v \in DOMAIN candidatedVoted :
                    candidatedVoted[v].candidateId = candidate.id})

WithVotes(candidate) ==
    [id |-> candidate.id, name |-> candidate.name, party |-> candidate.party,
     votes |-> VotesFor(candidate)]

\* candidates.map(...) : a new array, one entry per candidate, in array order.
CandidateWithVotesCount == [i \in 1..Len(candidates) |-> WithVotes(candidates[i])]

AscendingCompare(candid1, candid2) == candid1.votes - candid2.votes

DefaultCompare(candid1, candid2) == candid2.votes - candid1.votes

\* (candid1, candid2) => sortFn ? sortFn(candid1, candid2) : candid2.votes - candid1.votes
Compare(sortFn, candid1, candid2) ==
    CASE sortFn = NoSortFn -> DefaultCompare(candid1, candid2)
      [] sortFn = "votesAscending" -> candid1.votes - candid2.votes
      [] sortFn = "keepOrder" -> 0

\* Array.prototype.sort is stable: an element goes after every earlier element
\* that does not compare greater than it.
RECURSIVE Insert(_, _, _)
Insert(sortFn, sorted, x) ==
    IF sorted = <<>>
    THEN <<x>>
    ELSE IF Compare(sortFn, Head(sorted), x) <= 0
         THEN <<Head(sorted)>> \o Insert(sortFn, Tail(sorted), x)
         ELSE <<x>> \o sorted

RECURSIVE Sort(_, _)
Sort(sortFn, array) ==
    IF array = <<>>
    THEN <<>>
    ELSE Insert(sortFn, Sort(sortFn, SubSeq(array, 1, Len(array) - 1)), array[Len(array)])

GetResultsValue(sortFn) == Sort(sortFn, CandidateWithVotesCount)

WithoutVotes(entry) == [id |-> entry.id, name |-> entry.name, party |-> entry.party]

SortedInPlace(sortFn) ==
    [i \in 1..Len(candidates) |-> WithoutVotes(GetResultsValue(sortFn)[i])]

\* The candidates array after getResults: map() built the array that sort()
\* reorders, so the array given to createElection keeps its contents and order.
CandidatesAfterGetResults(sortFn) == candidates

GetResults(sortFn) ==
    /\ call' = [op |-> "getResults", sortFn |-> sortFn]
    /\ ret' = GetResultsValue(sortFn)
    /\ candidates' = CandidatesAfterGetResults(sortFn)
    /\ UNCHANGED <<registeredVoterList, candidatedVoted, candidatedVotedProto, succeeded>>

\* results[0].votes > 0 ? results[0] : null ; results[0] of an empty array is
\* undefined, and reading .votes of it throws.
WinnerWithoutZeroCheck(results) ==
    IF results = <<>> THEN TypeError ELSE results[1]

WinnerOf(results) ==
    IF results = <<>>
    THEN TypeError
    ELSE IF results[1].votes > 0 THEN results[1] ELSE JsNull

GetWinner ==
    /\ call' = [op |-> "getWinner"]
    /\ ret' = WinnerOf(GetResultsValue(NoSortFn))
    /\ candidates' = CandidatesAfterGetResults(NoSortFn)
    /\ UNCHANGED <<registeredVoterList, candidatedVoted, candidatedVotedProto, succeeded>>

----------------------------------------------------------------------------
(* The election as a state machine *)

Init ==
    /\ candidates \in CandidateLists
    /\ registeredVoterList = EmptyMap
    /\ candidatedVoted = EmptyMap
    /\ candidatedVotedProto = JsNull
    /\ succeeded = {}
    /\ call = [op |-> "createElection"]
    /\ ret = JsNull

Next ==
    \/ \E voter \in VoterInputs : RegisterVoter(voter)
    \/ \E voterId \in VoterIds, candidateId \in CandidateIdInputs :
          CastVote(voterId, candidateId)
    \/ \E sortFn \in SortFns : GetResults(sortFn)
    \/ GetWinner

Spec == Init /\ [][Next]_vars

----------------------------------------------------------------------------
(* adjustBrightness *)

ChannelSamples == {0, 1, 100, MaxChannel}

ColorInputs ==
    {JsNull} \cup {[name |-> "gulal", r |-> r, g |-> g, b |-> b] :
                      r \in ChannelSamples, g \in ChannelSamples, b \in ChannelSamples}

\* Numeric factors num/den, and one argument that is not a number.
NotANumber == [notNumber |-> TRUE]

FactorInputs ==
    {NotANumber}
    \cup {[num |-> n, den |-> d] : n \in (-MaxNumerator)..MaxNumerator, d \in {1, 2}}

IsNumber(factor) == "num" \in DOMAIN factor

\* Math.round(channel * factor): the nearest integer, halves towards +infinity.
RoundProduct(channel, factor) ==
    (2 * channel * factor.num + factor.den) \div (2 * factor.den)

Min(a, b) == IF a < b THEN a ELSE b

\* Math.min(Math.round(channel * factor), 255)
AdjustChannel(channel, factor) == Min(RoundProduct(channel, factor), MaxChannel)

AdjustBrightnessValue(color, factor) ==
    IF color = JsNull \/ ~IsNumber(factor)
    THEN JsNull
    ELSE [name |-> color.name,
          r |-> AdjustChannel(color.r, factor),
          g |-> AdjustChannel(color.g, factor),
          b |-> AdjustChannel(color.b, factor)]

AdjustBrightness(color, factor) ==
    /\ call' = [op |-> "adjustBrightness", color |-> color, factor |-> factor]
    /\ ret' = AdjustBrightnessValue(color, factor)
    /\ UNCHANGED <<candidates, registeredVoterList, candidatedVoted,
                   candidatedVotedProto, succeeded>>

InitColor ==
    /\ candidates = <<>>
    /\ registeredVoterList = EmptyMap
    /\ candidatedVoted = EmptyMap
    /\ candidatedVotedProto = JsNull
    /\ succeeded = {}
    /\ call = [op |-> "import"]
    /\ ret = JsNull

NextColor == \E color \in ColorInputs, factor \in FactorInputs : AdjustBrightness(color, factor)

SpecColor == InitColor /\ [][NextColor]_vars

----------------------------------------------------------------------------
(* Vocabulary of the properties, stated on the state and on call / ret *)

OriginalCandidateIds == {candidates[i].id : i \in 1..Len(candidates)}

RegisteredIds == DOMAIN registeredVoterList

BallotIds == DOMAIN candidatedVoted

BallotCount(candidateId) ==
    Cardinality({v \in BallotIds : candidatedVoted[v].candidateId = candidateId})

OriginalIndex(candidateId) ==
    CHOOSE i \in 1..Len(candidates) : candidates[i].id = candidateId

Tallied(i) ==
    [id |-> candidates[i].id, name |-> candidates[i].name,
     party |-> candidates[i].party, votes |-> BallotCount(candidates[i].id)]

Max(a, b) == IF a > b THEN a ELSE b

IsOnError(r, reason) == r.callback = "onError" /\ r.arg = reason

IsOnSuccess(r) == r.callback = "onSuccess"

BallotsUntouched ==
    /\ candidatedVoted' = candidatedVoted
    /\ candidatedVotedProto' = candidatedVotedProto
    /\ succeeded' = succeeded

----------------------------------------------------------------------------
(* Properties *)

\* C1: a castVote whose candidateId matches no candidate of the original array
\* calls onError("Wrong candidate!") and not onSuccess, whoever the voter is
\* (a registered voter who has not voted included), and records no ballot.
C1_WrongCandidate ==
    [][(call'.op = "castVote" /\ call'.candidateId \notin OriginalCandidateIds)
          => (IsOnError(ret', "Wrong candidate!") /\ BallotsUntouched)]_vars

C1_Witness ==
    /\ call.op = "castVote"
    /\ candidates # <<>>
    /\ call.candidateId \notin OriginalCandidateIds
    /\ call.voterId \in RegisteredIds
    /\ call.voterId \notin BallotIds
    /\ call.voterId \notin succeeded
    /\ IsOnError(ret, "Wrong candidate!")

\* C2 as stated: a castVote whose voterId is not registered calls
\* onError("Unauthorized voter!") whether or not candidateId is a candidate.
C2_UnauthorizedAnyCandidate ==
    [][(call'.op = "castVote" /\ call'.voterId \notin RegisteredIds)
          => IsOnError(ret', "Unauthorized voter!")]_vars

\* C2 amended: a castVote whose voterId is not registered and whose candidateId
\* is a candidate of the original array calls onError("Unauthorized voter!").
C2_UnauthorizedValidCandidate ==
    [][(/\ call'.op = "castVote"
        /\ call'.voterId \notin RegisteredIds
        /\ call'.candidateId \in OriginalCandidateIds)
          => (IsOnError(ret', "Unauthorized voter!") /\ BallotsUntouched)]_vars

C2_Witness ==
    /\ call.op = "castVote"
    /\ call.voterId \notin RegisteredIds
    /\ call.candidateId \in OriginalCandidateIds
    /\ IsOnError(ret, "Unauthorized voter!")

\* C3: votes are final: once castVote has succeeded for a voter id, every later
\* castVote for that id with a valid candidate calls onError("Already voted!"),
\* and a recorded ballot keeps its candidateId and is never removed.
C3_VotesAreFinal ==
    [][/\ \A v \in BallotIds :
              /\ v \in DOMAIN candidatedVoted'
              /\ candidatedVoted'[v].candidateId = candidatedVoted[v].candidateId
       /\ (/\ call'.op = "castVote"
           /\ call'.voterId \in succeeded
           /\ call'.candidateId \in OriginalCandidateIds)
             => IsOnError(ret', "Already voted!")]_vars

\* C4: registerVoter returns false and changes nothing when the voter is
\* missing or has no id, is under 18, or its id is already registered (the
\* stored record stays); otherwise it returns true and adds exactly that voter.
C4_RegisterVoter ==
    [][call'.op = "registerVoter" =>
          LET voter == call'.voter
              refused == \/ "id" \notin DOMAIN voter
                         \/ voter.id = EmptyId
                         \/ ("age" \in DOMAIN voter /\ voter.age < 18)
                         \/ voter.id \in RegisteredIds
          IN  /\ BallotsUntouched
              /\ candidates' = candidates
              /\ IF refused
                 THEN /\ ret' = FALSE
                      /\ registeredVoterList' = registeredVoterList
                 ELSE /\ ret' = TRUE
                      /\ DOMAIN registeredVoterList' = RegisteredIds \cup {voter.id}
                      /\ registeredVoterList'[voter.id] = voter
                      /\ \A k \in RegisteredIds :
                            registeredVoterList'[k] = registeredVoterList[k]]_vars

C4_Witness ==
    /\ call.op = "registerVoter"
    /\ ret = FALSE
    /\ "id" \in DOMAIN call.voter
    /\ "age" \in DOMAIN call.voter
    /\ call.voter.age >= 18
    /\ call.voter.id \in RegisteredIds
    /\ registeredVoterList[call.voter.id] # call.voter

\* C5: no anonymous votes: every voter id with a recorded ballot, and every
\* voter id for which castVote has succeeded, is a key of registeredVoterList.
C5_NoAnonymousVotes ==
    /\ BallotIds \subseteq RegisteredIds
    /\ succeeded \subseteq RegisteredIds

C5_Witness ==
    /\ call.op = "castVote"
    /\ IsOnSuccess(ret)
    /\ call.voterId \in BallotIds
    /\ RegisteredIds # BallotIds

\* C6: the candidateId of every recorded ballot is the id of a candidate of the
\* original array.
C6_BallotsNameCandidates ==
    \A v \in BallotIds : candidatedVoted[v].candidateId \in OriginalCandidateIds

C6_Witness ==
    \E v, w \in BallotIds :
        candidatedVoted[v].candidateId # candidatedVoted[w].candidateId

\* C7: getResults() without a comparator returns one entry per original
\* candidate, its votes the number of recorded ballots for that candidate,
\* ordered by votes descending, equal votes in original array order.
C7_DefaultResults ==
    (call.op = "getResults" /\ call.sortFn = NoSortFn) =>
        /\ Len(ret) = Len(candidates)
        /\ \A i \in 1..Len(candidates) : \E j \in 1..Len(ret) : ret[j] = Tallied(i)
        /\ \A i, j \in 1..Len(ret) :
              i < j => \/ ret[i].votes > ret[j].votes
                       \/ /\ ret[i].votes = ret[j].votes
                          /\ OriginalIndex(ret[i].id) < OriginalIndex(ret[j].id)

C7_Witness ==
    /\ call.op = "getResults"
    /\ call.sortFn = NoSortFn
    /\ Len(ret) >= 2
    /\ ret[1].id # candidates[1].id
    /\ ret[1].votes > ret[2].votes

C9_ReadsChangeNothing ==
    [][call'.op \in {"getResults", "getWinner"} =>
          /\ candidates' = candidates
          /\ registeredVoterList' = registeredVoterList
          /\ BallotsUntouched]_vars

C9_Witness ==
    /\ call.op = "getResults"
    /\ Len(ret) >= 2
    /\ ret[1].id # candidates[1].id
    /\ RegisteredIds # {}

\* C10: adjustBrightness of a colour with channels in 0..255 and a numeric
\* factor returns the same name and, per channel, round(channel * factor)
\* clamped into 0..255.
C10_ClampedChannels ==
    (call.op = "adjustBrightness" /\ "r" \in DOMAIN call.color /\ IsNumber(call.factor)) =>
        /\ ret.name = call.color.name
        /\ \A ch \in {"r", "g", "b"} :
              /\ ret[ch] = Max(0, Min(MaxChannel, RoundProduct(call.color[ch], call.factor)))
              /\ ret[ch] >= 0
              /\ ret[ch] <= MaxChannel

====
